---- MODULE Spec2Model ----
(***************************************************************************)
(* A model of ESMBenchmarkViz: the sector partitioner and data shaper of   *)
(* the portrait plot, the Taylor-diagram builder, and the client-side      *)
(* navigation widget shared by the scatter plot and the Taylor diagram.    *)
(*                                                                         *)
(* Each component has its own specification (SpecGeom, SpecPortrait,       *)
(* SpecTaylor, SpecNav) over the one set of variables; the variables of    *)
(* the other components stay at their idle values.                         *)
(***************************************************************************)
EXTENDS Integers, Sequences, FiniteSets, TLC

VARIABLES
    num_sectors,   \* geometry: the argument of the last get_x_y_points call
    xy,            \* geometry: what that call returned
    probe,         \* geometry: a point of the unit square looked up in xy
    pp_args,       \* portrait_plot: the arguments of the call
    pp_out,        \* portrait_plot: its outcome and the columns it built
    td_heap,       \* taylor_diagram: the caller's list objects (names, images, colormap)
    td_args,       \* taylor_diagram: the arguments, as they were before the first call
    td_out,        \* taylor_diagram: the outcomes of the calls made so far
    source,        \* widget: the ColumnDataSource (data columns and selected.indices)
    name_select,   \* widget: the Select's value
    div,           \* widget: the image panel's text
    last_event,    \* widget: the last user event and the state it found
    call,          \* helper functions and scatter_plot: the last call and its arguments
    ret            \* helper functions and scatter_plot: what that call returned or raised

vars == <<num_sectors, xy, probe, pp_args, pp_out, td_heap, td_args, td_out,
          source, name_select, div, last_event, call, ret>>

geomVars == <<num_sectors, xy, probe>>
portraitVars == <<pp_args, pp_out>>
taylorVars == <<td_heap, td_args, td_out>>
navVars == <<source, name_select, div, last_event>>
callVars == <<call, ret>>

\* ------------------------------------------------------------------------
\* Bounds
\* ------------------------------------------------------------------------
MaxSectors == 13     \* largest num_sectors tried
ProbeGrid == 8       \* probes lie on a (ProbeGrid+1) x (ProbeGrid+1) lattice
MaxGrid == 2         \* most rows and most columns of a portrait-plot array
MaxDivide == 4       \* longest leading axis (or list) of portrait-plot data
MaxModels == 2       \* most models handed to taylor_diagram
MaxCalls == 2        \* calls of taylor_diagram on the same argument objects
MaxPoints == 3       \* most points of a plot with the navigation widget
MaxNames == 2        \* how many different names the points may carry
MaxColors == 4       \* largest num_colors asked of get_bokeh_colors_from_cmap
MaxStd == 4          \* largest max_stddev and refstd of the arcs, in halves
MaxRadius == 6       \* largest radius handed to find_circle_intersection

\* ------------------------------------------------------------------------
\* Small helpers
\* ------------------------------------------------------------------------
Min2(a, b) == IF a <= b THEN a ELSE b
Max2(a, b) == IF a >= b THEN a ELSE b
Abs(a) == IF a < 0 THEN -a ELSE a
Range(s) == {s[i] : i \in 1..Len(s)}

RECURSIVE Flatten(_)
Flatten(ss) == IF ss = <<>> THEN <<>> ELSE Head(ss) \o Flatten(Tail(ss))

RECURSIVE SumSeq(_)
SumSeq(s) == IF s = <<>> THEN 0 ELSE Head(s) + SumSeq(Tail(s))

\* ------------------------------------------------------------------------
\* Fixed-point trigonometry (numpy's cos and sin), to 6 decimals.
\* Angles are whole multiples of pi/(2*n), n the number of sectors: every
\* angle find_intersection_points_centered builds is one.
\*
\* At odd multiples of pi/4 cos and sin come out equal in size, so a ray
\* through a corner of the square meets the corner itself; in double arithmetic such
\* a ray may meet the adjacent edge within 1e-15 of the corner, which the
\* rounding to 2 decimals of extract_polygon_coordinates removes again.
\* ------------------------------------------------------------------------
FP == 1000000
PiFP == 3141593

\* a*b/FP for 0 <= a, b <= FP, without leaving 32 bits
MulFP(a, b) == ((a \div 1000) * b + ((a % 1000) * b) \div 1000) \div 1000

SinSeries(x) ==
    LET x2 == MulFP(x, x)
        t3 == MulFP(x, x2) \div 6
        t5 == MulFP(t3, x2) \div 20
        t7 == MulFP(t5, x2) \div 42
        t9 == MulFP(t7, x2) \div 72
    IN  x - t3 + t5 - t7 + t9

CosSeries(x) ==
    LET x2 == MulFP(x, x)
        c2 == x2 \div 2
        c4 == MulFP(c2, x2) \div 12
        c6 == MulFP(c4, x2) \div 30
        c8 == MulFP(c6, x2) \div 56
    IN  FP - c2 + c4 - c6 + c8

\* <<cos, sin>> * FP of the angle m * pi/(2n)
CosSin(m, n) ==
    LET mm == m % (4 * n)
        q == mm \div n
        r == mm % n
        swap == 2 * r > n
        x == ((IF swap THEN n - r ELSE r) * PiFP) \div (2 * n)
        c == IF swap THEN SinSeries(x) ELSE CosSeries(x)
        s == IF swap THEN CosSeries(x) ELSE SinSeries(x)
    IN  CASE q = 0 -> <<c, s>>
          [] q = 1 -> <<-s, c>>
          [] q = 2 -> <<-c, -s>>
          [] OTHER -> <<s, -c>>

\* ------------------------------------------------------------------------
\* Sector partitioner (core_portrait_plot.py)
\* A point is <<xn, yn, d>>, the point (xn/d, yn/d) of the plane, d > 0.
\* ------------------------------------------------------------------------
center == <<1, 1, 2>>
square_apexes == << <<0, 0, 1>>, <<1, 0, 1>>, <<1, 1, 1>>, <<0, 1, 1>> >>

\* The square's edges in half-units (the centre is (1, 1), the radius 1):
\* bottom, right, top, left.
edges == << << <<0, 0>>, <<2, 0>> >>,
            << <<2, 0>>, <<2, 2>> >>,
            << <<2, 2>>, <<0, 2>> >>,
            << <<0, 2>>, <<0, 0>> >> >>

\* np.linspace(0, -2*pi, n, endpoint=False), in ticks of pi/(2n)
linspace(n) == [k \in 1..n |-> -4 * (k - 1)]

\* The ray angles, in ticks of pi/(2n): pi/2 is n ticks, pi/n is 2 ticks.
angles(n) ==
    LET a == linspace(n)
    IN  IF n % 2 = 0
        THEN [k \in 1..n |-> a[k] - (a[2] \div 2) + n]
        ELSE [k \in 1..n |-> a[k] + 2 + n]

\* The line-line intersection of one edge with the ray of direction
\* <<dx, dy>> (times FP): det, and the numerators of t and u.
EdgeDet(edge, d) ==
    LET x1 == edge[1][1]  y1 == edge[1][2]
        x2 == edge[2][1]  y2 == edge[2][2]
    IN  (x1 - x2) * (-d[2]) - (y1 - y2) * (-d[1])

EdgeT(edge, d) ==
    LET x1 == edge[1][1]  y1 == edge[1][2]
    IN  (x1 - 1) * (-d[2]) - (y1 - 1) * (-d[1])

EdgeU(edge) ==
    LET x1 == edge[1][1]  y1 == edge[1][2]
        x2 == edge[2][1]  y2 == edge[2][2]
    IN  -((x1 - x2) * (y1 - 1) - (y1 - y2) * (x1 - 1))

\* det != 0 and 0 <= t <= 1 and u >= 0
EdgeHit(edge, d) ==
    LET det == EdgeDet(edge, d)
        t == EdgeT(edge, d)
        u == EdgeU(edge)
    IN  /\ det # 0
        /\ IF det > 0 THEN 0 <= t /\ t <= det ELSE t <= 0 /\ det <= t
        /\ u * det >= 0

\* (x1 + t*(x2 - x1), y1 + t*(y2 - y1)), brought back from half-units
EdgePoint(edge, d) ==
    LET det == EdgeDet(edge, d)
        t == EdgeT(edge, d)
        x1 == edge[1][1]  y1 == edge[1][2]
        x2 == edge[2][1]  y2 == edge[2][2]
        xn == x1 * det + t * (x2 - x1)
        yn == y1 * det + t * (y2 - y1)
    IN  IF det > 0 THEN <<xn, yn, 2 * det>> ELSE <<-xn, -yn, -2 * det>>

\* The inner loop over the edges: the first edge hit wins; no point is
\* appended when no edge is hit.
RayPoints(d) ==
    LET hits == {e \in 1..4 : EdgeHit(edges[e], d)}
    IN  IF hits = {} THEN <<>>
        ELSE << EdgePoint(edges[CHOOSE e \in hits : \A f \in hits : e <= f], d) >>

\* find_intersection_points_centered with rays for two sectors as well
find_intersection_points_centered_rays(n) ==
    LET a == angles(n)
    IN  Flatten([k \in 1..n |-> RayPoints(CosSin(a[k], n))])

find_intersection_points_centered(n) ==
    IF n = 2 THEN << <<0, 0, 1>>, <<1, 1, 1>> >>
    ELSE LET a == angles(n)
         IN  Flatten([k \in 1..n |-> RayPoints(CosSin(a[k], n))])

\* min(p1[c], p2[c]) <= apex[c] <= max(p1[c], p2[c]) for both coordinates
ApexInBox(p1, p2, apex) ==
    \A c \in 1..2 :
        /\ \/ p1[c] * apex[3] <= apex[c] * p1[3]
           \/ p2[c] * apex[3] <= apex[c] * p2[3]
        /\ \/ p1[c] * apex[3] >= apex[c] * p1[3]
           \/ p2[c] * apex[3] >= apex[c] * p2[3]

\* SectorApexes without the general branch's corner test: no corner is added
SectorApexesNoCorner(n, i, p1, p2) ==
    CASE n = 2 /\ i = 0 -> << square_apexes[4] >>
      [] n = 2 /\ i = 1 -> << square_apexes[2] >>
      [] n = 3 /\ i = 0 -> << square_apexes[4], square_apexes[3] >>
      [] OTHER -> <<>>

\* The apexes one sector's polygon gets between p1 and p2 (i counts from 0)
SectorApexes(n, i, p1, p2) ==
    CASE n = 2 /\ i = 0 -> << square_apexes[4] >>
      [] n = 2 /\ i = 1 -> << square_apexes[2] >>
      [] n = 2 /\ i > 1 -> <<>>
      [] n = 3 /\ i = 0 -> << square_apexes[4], square_apexes[3] >>
      [] n = 4 -> <<>>
      [] OTHER -> SelectSeq(square_apexes, LAMBDA apex : ApexInBox(p1, p2, apex))

create_polygons(n) ==
    LET points == find_intersection_points_centered(n)
    IN  [k \in 1..n |->
            LET i == k - 1
                p1 == points[i + 1]
                p2 == points[((i + 1) % Len(points)) + 1]
            IN  (IF n # 2 THEN <<center, p1>> ELSE <<p1>>)
                \o SectorApexes(n, i, p1, p2) \o <<p2>>]

\* Python's round(v, 2) of v = a/d >= 0, in hundredths (ties to even)
Round2(a, d) ==
    LET q == (100 * a) \div d
        r == (100 * a) % d
    IN  IF 2 * r > d THEN q + 1
        ELSE IF 2 * r = d THEN q + (q % 2)
        ELSE q

\* Coordinates of the result are whole hundredths.
extract_polygon_coordinates(polygons) ==
    [xpts_list |-> [k \in 1..Len(polygons) |->
                       [j \in 1..Len(polygons[k]) |->
                           Round2(polygons[k][j][1], polygons[k][j][3])]],
     ypts_list |-> [k \in 1..Len(polygons) |->
                       [j \in 1..Len(polygons[k]) |->
                           Round2(polygons[k][j][2], polygons[k][j][3])]]]

get_x_y_points(n) ==
    IF n = 1
    THEN [xpts_list |-> << <<0, 0, 100, 100>> >>,
          ypts_list |-> << <<100, 0, 0, 100>> >>]
    ELSE extract_polygon_coordinates(create_polygons(n))

\* The empty sequence stands for None: no list returned is empty.
get_positions(n) ==
    CASE n = 4 -> <<"top", "right", "bottom", "left">>
      [] n = 3 -> <<"top", "lower-left", "lower-right">>
      [] n = 2 -> <<"upper", "lower">>
      [] n = 1 -> <<"box">>
      [] OTHER -> <<>>    \* None


\* ------------------------------------------------------------------------
\* Geometry specification: calls of get_x_y_points, and look-ups of lattice
\* points of the unit square in the polygons the last call returned.
\* ------------------------------------------------------------------------
NoCall == [xpts_list |-> <<>>, ypts_list |-> <<>>]
NotYet == [fn |-> "none"]
NoProbe == <<-1, -1>>


GetXYPoints(n) ==
    /\ num_sectors' = n
    /\ xy' = get_x_y_points(n)
    /\ probe' = NoProbe
    /\ UNCHANGED <<portraitVars, taylorVars, navVars, callVars>>

\* The lattice point (i/ProbeGrid, j/ProbeGrid) is looked up.
ProbePoint(i, j) ==
    /\ num_sectors >= 1
    /\ probe' = <<i, j>>
    /\ UNCHANGED <<num_sectors, xy, portraitVars, taylorVars, navVars, callVars>>

\* ------------------------------------------------------------------------
\* Data shaper (core_portrait_plot.py)
\*
\* An array argument is [kind, shape, elem_ok, base]: kind "ndarray" with
\* its shape; kind "list", a Python list of shape[1] arrays of shape
\* (shape[2], shape[3]), numpy arrays when elem_ok and nested lists
\* otherwise; or kind "None".  The element at (d, r, c), counted from 0, is
\* base + 100*d + 10*r + c, so every cell holds its own value; but with nan
\* "first" the element at (0, 0, 0) is NaN and with nan "all" every element
\* is.
\* ------------------------------------------------------------------------
None == [kind |-> "None", shape |-> <<>>, elem_ok |-> FALSE, base |-> 0,
         nan |-> "none"]

NdArray(shape, base) ==
    [kind |-> "ndarray", shape |-> shape, elem_ok |-> TRUE, base |-> base,
     nan |-> "none"]

\* The float NaN among the cell values, which are all >= 0
NaN == -1000
IsNaN(v) == v = NaN

CellValue(data, d, r, c) ==
    IF data.nan = "all" \/ (data.nan = "first" /\ d = 0 /\ r = 0 /\ c = 0)
    THEN NaN
    ELSE data.base + 100 * d + 10 * r + c

Labels(n, base) == [k \in 1..n |-> base + k]

\* prepare_data without the check of yaxis_labels (line 544)
prepare_data_no_ycheck(data, xaxis_labels, yaxis_labels) ==
    LET failed(st) == [status |-> st, data |-> data, num_divide |-> 0]
        checked(arr) ==
            LET shape == arr.shape
                n == Len(shape)
            IN  IF shape[n] # Len(xaxis_labels) /\ Len(xaxis_labels) > 0
                THEN failed("exit")
                ELSE IF n < 2
                THEN failed("IndexError")
                ELSE IF n = 2
                THEN [status |-> "ok", data |-> arr, num_divide |-> 1]
                ELSE IF n = 3
                THEN [status |-> "ok", data |-> arr, num_divide |-> shape[1]]
                ELSE failed("exit")
    IN  CASE data.kind = "list" ->
                IF data.shape[1] = 1
                THEN IF data.elem_ok
                     THEN checked([data EXCEPT !.kind = "ndarray",
                                               !.shape = Tail(data.shape)])
                     ELSE failed("exit")
                ELSE checked([data EXCEPT !.kind = "ndarray", !.elem_ok = TRUE])
          [] data.kind = "None" -> failed("AttributeError")
          [] OTHER -> checked(data)

\* prepare_data(data, xaxis_labels, yaxis_labels): [status, data, num_divide].
\* status is "ok", "exit" (sys.exit), or the exception raised.
prepare_data(data, xaxis_labels, yaxis_labels) ==
    LET failed(st) == [status |-> st, data |-> data, num_divide |-> 0]
        \* lines 537-562, data a numpy array by now
        checked(arr) ==
            LET shape == arr.shape
                n == Len(shape)
            IN  IF shape[n] # Len(xaxis_labels) /\ Len(xaxis_labels) > 0
                THEN failed("exit")
                ELSE IF n < 2
                THEN failed("IndexError")
                ELSE IF shape[n - 1] # Len(yaxis_labels) /\ Len(yaxis_labels) > 0
                THEN failed("exit")
                ELSE IF n = 2
                THEN [status |-> "ok", data |-> arr, num_divide |-> 1]
                ELSE IF n = 3
                THEN [status |-> "ok", data |-> arr, num_divide |-> shape[1]]
                ELSE failed("exit")
    IN  CASE data.kind = "list" ->
                IF data.shape[1] = 1
                THEN IF data.elem_ok
                     THEN checked([data EXCEPT !.kind = "ndarray",
                                               !.shape = Tail(data.shape)])
                     ELSE failed("exit")
                ELSE checked([data EXCEPT !.kind = "ndarray", !.elem_ok = TRUE])
          [] data.kind = "None" -> failed("AttributeError")
          [] OTHER -> checked(data)

\* a[iy, ix] of division i (all counted from 0), a = data[i] or data,
\* turned upside down by np.flipud when invert_yaxis
ShapedCell(data, invert_yaxis, i, iy, ix) ==
    LET n == Len(data.shape)
        rows == data.shape[n - 1]
    IN  CellValue(data, i, IF invert_yaxis THEN rows - 1 - iy ELSE iy, ix)

NoColumns ==
    [xs |-> <<>>, ys |-> <<>>, field |-> <<>>, field2 |-> <<>>,
     xname |-> <<>>, yname |-> <<>>, position |-> <<>>,
     x_range |-> <<>>, y_range |-> <<>>,
     x_axis_location |-> "", below_axis |-> <<>>, low |-> 0, high |-> 0]

\* np.nanmin and np.nanmax of the values: NaN when every value is NaN
nanmin(values) ==
    LET real == {v \in Range(values) : ~IsNaN(v)}
    IN  IF real = {} THEN NaN ELSE CHOOSE v \in real : \A w \in real : v <= w
nanmax(values) ==
    LET real == {v \in Range(values) : ~IsNaN(v)}
    IN  IF real = {} THEN NaN ELSE CHOOSE v \in real : \A w \in real : v >= w

\* np.min, np.max, min and max of a list of numbers
SeqMin(values) == CHOOSE v \in Range(values) : \A w \in Range(values) : v <= w
SeqMax(values) == CHOOSE v \in Range(values) : \A w \in Range(values) : v >= w

\* Python's min([a, b]) and max([a, b]): b only when b < a (b > a) holds,
\* which it never does when one of them is NaN
PyMin2(a, b) == IF ~IsNaN(a) /\ ~IsNaN(b) /\ b < a THEN b ELSE a
PyMax2(a, b) == IF ~IsNaN(a) /\ ~IsNaN(b) /\ b > a THEN b ELSE a

\* low and high of the LinearColorMapper (lines 384-396); vrange and
\* cmap_bounds are <<>> for None and <<list>> otherwise
mapper_low(field, vrange, cmap_bounds) ==
    LET vmin == IF vrange = <<>> THEN nanmin(field) ELSE SeqMin(vrange[1])
    IN  IF cmap_bounds = <<>> THEN vmin ELSE PyMin2(vmin, SeqMin(cmap_bounds[1]))
mapper_high(field, vrange, cmap_bounds) ==
    LET vmax == IF vrange = <<>> THEN nanmax(field) ELSE SeqMax(vrange[1])
    IN  IF cmap_bounds = <<>> THEN vmax ELSE PyMax2(vmax, SeqMax(cmap_bounds[1]))

\* The second x-axis of xaxis_location "both" (lines 427-436): a tick at
\* x + 0.5, here 2x + 1 halves, labelled xaxis_labels[x]
no_below_axis(xaxis_labels) == <<>>
below_axis(xaxis_labels) ==
    [k \in 1..Len(xaxis_labels) |->
        [at |-> 2 * (k - 1) + 1, label |-> xaxis_labels[k]]]

ReverseKept(s) == s
Reverse(s) == [k \in 1..Len(s) |-> s[Len(s) + 1 - k]]

\* The polygons and quadrant labels of lines 182-186, one entry for each
\* num_divide a call can arrive at
xpts_ypts == [n \in 1..MaxDivide |-> get_x_y_points(n)]
positions_of == [n \in 1..MaxDivide |-> get_positions(n)]

\* The loop of lines 190-233 visits division i, then row iy, then column ix
\* (all from 0); LoopAt(k, ...) is the k-th visit, k from 1.
LoopAt(k, rows, cols) ==
    [i |-> (k - 1) \div (rows * cols),
     iy |-> ((k - 1) \div cols) % rows,
     ix |-> (k - 1) % cols]

ShiftBy(pts, off) == [j \in 1..Len(pts) |-> pts[j] + 100 * off]

\* portrait_plot with glyph_rows, img_url, legend_labels, vrange and
\* cmap_bounds left at None: [status] and the columns of col_dict.
\* status is "figure" when the figure is returned.
portrait_plot(a) ==
    LET stop(st) == [status |-> st] @@ NoColumns
        pd == prepare_data(a.data, a.xaxis_labels, a.yaxis_labels)
        pa == prepare_data(a.annotate_data, a.xaxis_labels, a.yaxis_labels)
        nd == pd.num_divide
        ndim == Len(pd.data.shape)
        rows == pd.data.shape[ndim - 1]
        cols == pd.data.shape[ndim]
        visits == 1..(nd * rows * cols)
        at(k) == LoopAt(k, rows, cols)
        field == [k \in visits |->
                    ShapedCell(pd.data, a.invert_yaxis, at(k).i, at(k).iy, at(k).ix)]
    IN  IF pd.status # "ok" THEN stop(pd.status)
        ELSE IF a.annotate /\ pa.status # "ok" THEN stop(pa.status)
        ELSE IF a.annotate /\ pa.num_divide # nd THEN stop("exit")
        \* lines 198-207: neither 3-D with several divisions nor 2-D
        ELSE IF ~(nd > 1 /\ ndim = 3) /\ ~(nd = 1 /\ ndim = 2) THEN stop("exit")
        \* lines 220, 222: a label is read for every row and every column
        ELSE IF Len(a.yaxis_labels) < rows \/ Len(a.xaxis_labels) < cols
        THEN stop("IndexError")
        \* lines 342-347
        ELSE IF a.xaxis_location \notin {"above", "below", "both"} THEN stop("exit")
        ELSE [status |-> "figure",
              xs |-> [k \in visits |->
                        ShiftBy(xpts_ypts[nd].xpts_list[at(k).i + 1], at(k).ix)],
              ys |-> [k \in visits |->
                        ShiftBy(xpts_ypts[nd].ypts_list[at(k).i + 1], at(k).iy)],
              field |-> field,
              field2 |-> IF a.annotate
                         THEN [k \in visits |->
                                ShapedCell(pa.data, a.invert_yaxis,
                                           at(k).i, at(k).iy, at(k).ix)]
                         ELSE <<>>,
              xname |-> [k \in visits |-> a.xaxis_labels[at(k).ix + 1]],
              yname |-> [k \in visits |-> a.yaxis_labels[at(k).iy + 1]],
              position |-> IF positions_of[nd] = <<>> THEN <<>>
                           ELSE [k \in visits |-> positions_of[nd][at(k).i + 1]],
              x_range |-> a.xaxis_labels,
              y_range |-> IF a.invert_yaxis THEN Reverse(a.yaxis_labels)
                          ELSE a.yaxis_labels,
              x_axis_location |-> IF a.xaxis_location = "both" THEN "above"
                                  ELSE a.xaxis_location,
              below_axis |-> IF a.xaxis_location = "both"
                             THEN below_axis(a.xaxis_labels) ELSE <<>>,
              low |-> mapper_low(field, a.vrange, a.cmap_bounds),
              high |-> mapper_high(field, a.vrange, a.cmap_bounds)]

\* The arrays a caller may pass as data
DataShapes ==
    {<<c>> : c \in 1..MaxGrid}
    \cup {<<r, c>> : r \in 1..MaxGrid, c \in 1..MaxGrid}
    \cup {<<d, r, c>> : d \in 1..MaxDivide, r \in 1..MaxGrid, c \in 1..MaxGrid}
    \cup {<<1, 1, r, c>> : r \in 1..MaxGrid, c \in 1..MaxGrid}

DataArgs ==
    {NdArray(sh, 0) : sh \in DataShapes}
    \cup {[kind |-> "list", shape |-> <<d, r, c>>, elem_ok |-> ok, base |-> 0,
            nan |-> "none"] :
            d \in 1..MaxDivide, r \in 1..MaxGrid, c \in 1..MaxGrid, ok \in BOOLEAN}

\* annotate_data: None, an array shaped like data, or one 2-D array
AnnotateArgs(data) ==
    {None}
    \cup (IF data.kind = "ndarray" THEN {NdArray(data.shape, 1000)} ELSE {})
    \cup (IF Len(data.shape) >= 2
          THEN {NdArray(SubSeq(data.shape, Len(data.shape) - 1, Len(data.shape)), 1000)}
          ELSE {})

NotCalled == [status |-> "not called"] @@ NoColumns
NoArgs == [data |-> None, xaxis_labels |-> <<>>, yaxis_labels |-> <<>>,
           annotate |-> FALSE, annotate_data |-> None, invert_yaxis |-> TRUE,
           xaxis_location |-> "above", vrange |-> <<>>, cmap_bounds |-> <<>>]

PortraitInit ==
    /\ \E data \in DataArgs, nx \in 0..(MaxGrid + 1), ny \in 0..(MaxGrid + 1),
          annotate \in BOOLEAN, invert_yaxis \in BOOLEAN :
          \E annotate_data \in (IF annotate THEN AnnotateArgs(data) ELSE {None}) :
             pp_args = [data |-> data,
                        xaxis_labels |-> Labels(nx, 10),
                        yaxis_labels |-> Labels(ny, 20),
                        annotate |-> annotate,
                        annotate_data |-> annotate_data,
                        invert_yaxis |-> invert_yaxis,
                        xaxis_location |-> "above",
                        vrange |-> <<>>, cmap_bounds |-> <<>>]
    /\ pp_out = NotCalled

\* Calls with a grid and matching labels that differ in the styling
\* arguments and in where the grid holds NaN
XAxisLocations == {"above", "below", "both", "top"}
VRanges == {<<>>, << <<0, 50>> >>, << <<300, -300>> >>}
CmapBounds == {<<>>, << <<-5, 0, 5>> >>, << <<10, 20, 500>> >>}

PortraitStyleInit ==
    /\ \E sh \in {x \in DataShapes : Len(x) \in {2, 3}},
          nan \in {"none", "first", "all"},
          xaxis_location \in XAxisLocations, vrange \in VRanges,
          cmap_bounds \in CmapBounds, invert_yaxis \in BOOLEAN :
          pp_args = [data |-> [NdArray(sh, 0) EXCEPT !.nan = nan],
                     xaxis_labels |-> Labels(sh[Len(sh)], 10),
                     yaxis_labels |-> Labels(sh[Len(sh) - 1], 20),
                     annotate |-> FALSE,
                     annotate_data |-> None,
                     invert_yaxis |-> invert_yaxis,
                     xaxis_location |-> xaxis_location,
                     vrange |-> vrange, cmap_bounds |-> cmap_bounds]
    /\ pp_out = NotCalled

PortraitPlot ==
    /\ pp_out = NotCalled
    /\ pp_out' = portrait_plot(pp_args)
    /\ UNCHANGED <<pp_args, geomVars, taylorVars, navVars, callVars>>

\* ------------------------------------------------------------------------
\* Exact rational arithmetic: <<n, d>> is n/d, d > 0, in lowest terms.
\* ------------------------------------------------------------------------
RECURSIVE GCD(_, _)
GCD(a, b) == IF b = 0 THEN a ELSE GCD(b, a % b)

RNorm(q) ==
    LET g == GCD(Abs(q[1]), Abs(q[2]))
        sg == IF q[2] < 0 THEN -1 ELSE 1
    IN  IF q[1] = 0 THEN <<0, 1>> ELSE <<sg * (q[1] \div g), sg * (q[2] \div g)>>

RAdd(p, q) == RNorm(<<p[1] * q[2] + q[1] * p[2], p[2] * q[2]>>)
RSub(p, q) == RNorm(<<p[1] * q[2] - q[1] * p[2], p[2] * q[2]>>)
RMul(p, q) == RNorm(<<p[1] * q[1], p[2] * q[2]>>)
RDiv(p, q) == RNorm(<<p[1] * q[2], p[2] * q[1]>>)
RLess(p, q) == p[1] * q[2] < q[1] * p[2]
RInt(k) == <<k, 1>>

RECURSIVE RMax(_)
RMax(s) ==
    IF Len(s) = 1 THEN s[1]
    ELSE LET m == RMax(Tail(s)) IN IF RLess(s[1], m) THEN m ELSE s[1]

\* np.arange(start, stop, step) in exact arithmetic
RCeil(q) == -((-q[1]) \div q[2])
arange(start, stop, step) ==
    [k \in 1..RCeil(RDiv(RSub(stop, start), step)) |->
        RAdd(start, RMul(RInt(k - 1), step))]

\* The square root of a rational whose numerator and denominator are squares
ISqrt(k) == CHOOSE r \in 0..k : r * r = k
RSqrt(q) == <<ISqrt(q[1]), ISqrt(q[2])>>

\* np.sqrt(q) in general: the root is kept as the value it is the root of
Sqrt(q) == [sqrt_of |-> q]

\* np.cos(np.arccos(c)) and np.sin(np.arccos(c)), for -1 <= c <= 1 with
\* 1 - c^2 the square of a rational
CosArccos(c) == c
SinArccos(c) == RSqrt(RSub(RInt(1), RMul(c, c)))

\* ------------------------------------------------------------------------
\* Taylor-diagram builder (core_taylor_diagram.py)
\* ------------------------------------------------------------------------
MsgLengths == "The lengths of 'std_devs', 'correlations', and 'names' must be equal."
MsgImages ==
    "The lengths of 'std_devs', 'correlations', 'names', and 'images' must be equal."

\* An optional list is <<>> for None and <<list>> for a list.  An image is
\* a positive number, 0 for None; a name is a number; a colormap is the
\* name of a Matplotlib colormap or a list of colours.
NoneList == <<>>
Given(list) == <<list>>

NoData == [x |-> <<>>, y |-> <<>>, names |-> <<>>, std_devs |-> <<>>,
           correlations |-> <<>>, rmse |-> <<>>, images |-> NoneList]

\* Python's truth value of the images argument
Truthy(images) == images # NoneList /\ images[1] # <<>>

Named == [is_list |-> FALSE, colors |-> <<>>]
ColorsOf(list) == [is_list |-> TRUE, colors |-> list]

\* Rmse with the factor 2 of the cross term left out
RmseNoTwo(refstd, rs, ts) ==
    Sqrt(RSub(RAdd(RMul(refstd, refstd), RMul(rs, rs)),
              RMul(RMul(refstd, rs), ts)))

\* rmse of one model: np.sqrt(refstd**2 + rs**2 - 2 * refstd * rs * ts)
Rmse(refstd, rs, ts) ==
    Sqrt(RSub(RAdd(RMul(refstd, refstd), RMul(rs, rs)),
              RMul(RMul(RMul(RInt(2), refstd), rs), ts)))

\* load_colormap(colormap, n): the first n colours of a list, n colours of a
\* named colormap; ValueError when the list holds fewer than n
load_colormap(colormap, n) ==
    IF ~colormap.is_list THEN [status |-> "ok", colors |-> [k \in 1..n |-> "sampled"]]
    ELSE IF Len(colormap.colors) < n THEN [status |-> "ValueError", colors |-> <<>>]
    ELSE [status |-> "ok", colors |-> SubSeq(colormap.colors, 1, n)]

\* AppendReference leaving the images alone
AppendReferenceNoImage(heap, a) ==
    [names |-> heap.names,
     images |-> heap.images,
     colormap |-> IF heap.colormap.is_list
                  THEN ColorsOf(Append(heap.colormap.colors, "black"))
                  ELSE heap.colormap]

\* The statements that add the reference to the caller's lists (lines 160-163)
AppendReference(heap, a) ==
    [names |-> heap.names,
     images |-> IF Truthy(heap.images)
                THEN Given(Append(heap.images[1], a.reference_image))
                ELSE heap.images,
     colormap |-> IF heap.colormap.is_list
                  THEN ColorsOf(Append(heap.colormap.colors, "black"))
                  ELSE heap.colormap]

\* The sanity check without its test of images
sanity_check_no_images(heap, a) ==
    IF \/ Len(a.std_devs) # Len(a.correlations)
       \/ Len(a.std_devs) # Len(heap.names)
       \/ Len(a.correlations) # Len(heap.names)
    THEN MsgLengths
    ELSE ""

\* The sanity check of the input data (lines 122-136): the message of the
\* ValueError it raises, "" when it raises none
sanity_check(heap, a) ==
    IF \/ Len(a.std_devs) # Len(a.correlations)
       \/ Len(a.std_devs) # Len(heap.names)
       \/ Len(a.correlations) # Len(heap.names)
    THEN MsgLengths
    ELSE IF heap.images # NoneList /\ Len(a.std_devs) # Len(heap.images[1])
    THEN MsgImages
    ELSE ""

\* The radius of the outermost standard-deviation arc that
\* add_reference_arcs(plot, max_stddev, step, refstd) draws: loop_range[-1]
OutermostRadius(max_stddev, step) ==
    LET loop_range == arange(step, RAdd(max_stddev, RMul(RInt(2), step)), step)
    IN  loop_range[Len(loop_range)]

\* Where the reference arcs and the reference lines of a figure end
NoReference == [outermost_radius |-> RInt(0), max_radius |-> RInt(0)]

\* taylor_diagram called with the objects of heap as names, images and
\* colormap: [status, message, data, reference] and the heap it leaves
\* behind.
taylor_diagram(heap, a) ==
    LET raise(msg, h) ==
            [status |-> "ValueError", message |-> msg, data |-> NoData,
             reference |-> NoReference, heap |-> h]
        n == Len(a.std_devs)
        \* lines 147-153
        std1 == IF a.normalize
                THEN [k \in 1..n |-> RDiv(a.std_devs[k], a.refstd)]
                ELSE a.std_devs
        refstd == IF a.normalize THEN RInt(1) ELSE a.refstd
        \* lines 155-163; names is a deep copy of the caller's list
        names == IF a.show_reference
                 THEN Append(heap.names, a.reference_name) ELSE heap.names
        std_devs == IF a.show_reference THEN Append(std1, refstd) ELSE std1
        correlations == IF a.show_reference
                        THEN Append(a.correlations, RInt(1)) ELSE a.correlations
        heap2 == IF a.show_reference THEN AppendReference(heap, a) ELSE heap
        rmse == [k \in 1..Len(std_devs) |-> Rmse(refstd, std_devs[k], correlations[k])]
        colors == load_colormap(heap2.colormap, Len(names))
        data == [x |-> [k \in 1..Len(std_devs) |->
                          RMul(std_devs[k], CosArccos(correlations[k]))],
                 y |-> [k \in 1..Len(std_devs) |->
                          RMul(std_devs[k], SinArccos(correlations[k]))],
                 names |-> names,
                 std_devs |-> std_devs,
                 correlations |-> correlations,
                 rmse |-> rmse,
                 images |-> IF Truthy(heap2.images) THEN heap2.images ELSE NoneList]
    IN  IF sanity_check(heap, a) # "" THEN raise(sanity_check(heap, a), heap)
        \* line 176: max() of an empty array
        ELSE IF std_devs = <<>> THEN raise("max() arg is an empty sequence", heap2)
        ELSE IF colors.status # "ok" THEN raise("colormap", heap2)
        ELSE [status |-> "figure", message |-> "", data |-> data,
              \* lines 176, 193 and 196
              reference |-> [outermost_radius |->
                                OutermostRadius(RMax(std_devs), a.step),
                             max_radius |-> RAdd(RMax(std_devs), a.step)],
              heap |-> heap2]

StdVals == {<<1, 2>>, <<1, 1>>}
CorrVals == {<<1, 1>>, <<3, 5>>, <<-4, 5>>}
RefVals == {<<1, 1>>, <<2, 1>>}

Reference == 99      \* reference_name
ModelNames(n) == [k \in 1..n |-> k]
ImageList(n) == [k \in 1..n |-> 100 + k]
ColorList(n) == [k \in 1..n |-> "color"]

\* Arrays of different lengths never have their values read.
TaylorArrays ==
    {<<s, c>> \in UNION {[1..n -> StdVals] \X [1..n -> CorrVals] : n \in 0..MaxModels} : TRUE}
    \cup {<<[k \in 1..n |-> <<1, 1>>], [k \in 1..m |-> <<1, 1>>]>> :
             n \in 0..MaxModels, m \in 0..MaxModels}

NoHeap == [names |-> <<>>, images |-> NoneList, colormap |-> Named]
DefaultStep == <<1, 5>>     \* step: float = 0.2
NoTaylorArgs ==
    [std_devs |-> <<>>, correlations |-> <<>>, refstd |-> <<1, 1>>,
     step |-> DefaultStep, normalize |-> FALSE, show_reference |-> FALSE, reference_name |-> Reference,
     reference_image |-> 0] @@ NoHeap


TaylorInit ==
    /\ \E sc \in TaylorArrays, nn \in 0..MaxModels,
          images \in {NoneList} \cup {Given(ImageList(k)) : k \in 0..MaxModels},
          colormap \in {Named} \cup {ColorsOf(ColorList(k)) : k \in 1..(MaxModels + 1)},
          refstd \in RefVals, normalize \in BOOLEAN, show_reference \in BOOLEAN :
          /\ td_heap = [names |-> ModelNames(nn), images |-> images,
                        colormap |-> colormap]
          /\ td_args = [std_devs |-> sc[1], correlations |-> sc[2], refstd |-> refstd,
                        step |-> DefaultStep, normalize |-> normalize, show_reference |-> show_reference,
                        reference_name |-> Reference, reference_image |-> 0]
                       @@ td_heap
    /\ td_out = <<>>

\* One more call with the same argument objects
TaylorCall ==
    /\ Len(td_out) < MaxCalls
    /\ LET r == taylor_diagram(td_heap, td_args)
       IN  /\ td_heap' = r.heap
           /\ td_out' = Append(td_out, [status |-> r.status, message |-> r.message,
                                        data |-> r.data, reference |-> r.reference])
    /\ UNCHANGED <<td_args, geomVars, portraitVars, navVars, callVars>>

\* ------------------------------------------------------------------------
\* Navigation widget (support_functions.py; core_scatter_plot.py holds the
\* same callbacks inline).  The callbacks are client-side CustomJS.
\*
\* Points are counted from 1 here (JavaScript index k - 1).  A name is a
\* positive number and 0 is the dropdown's "Select Data" entry; an image is
\* a positive number, 0 for None.  The widget state a callback works on is
\* st = [source, name_select, div, calls], calls counting the callbacks run.
\*
\* A property change runs the callbacks registered on it at once, and only
\* when the new value differs from the old one.
\* ------------------------------------------------------------------------
SelectData == 0

\* The text a callback writes for point k: the image link or "No image
\* available", and the point's values
PointText(data, k) ==
    [kind |-> IF data.images[k] # 0 THEN "image" ELSE "No image available",
     img |-> data.images[k],
     values |-> data.values[k]]

InitialText == [kind |-> "Click on a point to display the image here.",
                img |-> 0, values |-> 0]
NoMatchTextUnwritten == InitialText
NoMatchText == [kind |-> "No matching point found.", img |-> 0, values |-> 0]

\* names.indexOf(name), for a name in the list
IndexOf(names, name) == CHOOSE i \in 1..Len(names) :
                            /\ names[i] = name
                            /\ \A j \in 1..(i - 1) : names[j] # name

RECURSIVE dropdown_callback(_)
RECURSIVE click_callback(_)

\* name_select.value = v, were the callbacks run on every assignment
SetValueAlways(st, v) == dropdown_callback([st EXCEPT !.name_select.value = v])

\* name_select.value = v
SetValue(st, v) ==
    IF st.name_select.value = v THEN st
    ELSE dropdown_callback([st EXCEPT !.name_select.value = v])

\* source.selected.indices = ix
SetIndices(st, ix) ==
    IF st.source.selected.indices = ix THEN st
    ELSE click_callback([st EXCEPT !.source.selected.indices = ix])

\* div.text = text
SetText(st, text) == [st EXCEPT !.div.text = text]

dropdown_callback(st0) ==
    LET st == [st0 EXCEPT !.calls = @ + 1]
        names == st.source.data.names
        name_value == st.name_select.value
        indices == {i \in 1..Len(names) : names[i] = name_value}
    IN  IF indices # {}
        THEN LET selected == CHOOSE i \in indices : \A j \in indices : i <= j
             IN  SetIndices(SetText(st, PointText(st.source.data, selected)),
                            <<selected>>)
        ELSE SetIndices(SetText(st, NoMatchText), <<>>)

click_callback(st0) ==
    LET st == [st0 EXCEPT !.calls = @ + 1]
        indices == st.source.selected.indices
    IN  IF indices # <<>>
        THEN LET selected == indices[1]
                 name_value == st.source.data.names[selected]
             IN  SetText(SetValue(st, name_value),
                         PointText(st.source.data, selected))
        ELSE st

previous_callback(st0) ==
    LET st == [st0 EXCEPT !.calls = @ + 1]
        indices == st.source.selected.indices
        names == st.source.data.names
    IN  IF indices # <<>>
        THEN LET current_name == names[indices[1]]
                 current_index == IndexOf(names, current_name)
                 prev_index == ((current_index - 1 - 1 + Len(names)) % Len(names)) + 1
                 prev_name == names[prev_index]
             IN  SetIndices(SetValue(SetText(st, PointText(st.source.data, prev_index)),
                                     prev_name),
                            <<prev_index>>)
        ELSE st

\* A Next that selects the first point whatever is selected
next_callback_to_first(st0) == SetIndices([st0 EXCEPT !.calls = @ + 1], <<1>>)

next_callback(st0) ==
    LET st == [st0 EXCEPT !.calls = @ + 1]
        indices == st.source.selected.indices
        names == st.source.data.names
    IN  IF indices # <<>>
        THEN LET current_name == names[indices[1]]
                 current_index == IndexOf(names, current_name)
                 next_index == ((current_index - 1 + 1) % Len(names)) + 1
                 next_name == names[next_index]
             IN  SetIndices(SetValue(SetText(st, PointText(st.source.data, next_index)),
                                     next_name),
                            <<next_index>>)
        ELSE st

NoEvent == [kind |-> "none", arg |-> 0, before |-> <<>>, calls |-> 0]

NoSource == [data |-> [names |-> <<>>, images |-> <<>>, values |-> <<>>],
             selected |-> [indices |-> <<>>]]
NoSelect == [value |-> SelectData, options |-> <<SelectData>>]

\* The widget as scatter_plot or taylor_diagram builds it for n points with
\* a non-empty images list
NavInit ==
    /\ \E n \in 1..MaxPoints :
          \E names \in [1..n -> 1..MaxNames], has_image \in [1..n -> BOOLEAN] :
             /\ source = [data |-> [names |-> names,
                                    images |-> [k \in 1..n |->
                                                   IF has_image[k] THEN 100 + k ELSE 0],
                                    values |-> [k \in 1..n |-> 10 * k]],
                          selected |-> [indices |-> <<>>]]
             /\ name_select = [value |-> SelectData,
                               options |-> <<SelectData>> \o names]
    /\ div = [text |-> InitialText]
    /\ last_event = NoEvent

Widget == [source |-> source, name_select |-> name_select, div |-> div, calls |-> 0]

\* The widget is left as st; the event that led there is recorded.
Becomes(st, kind, arg) ==
    /\ source' = st.source
    /\ name_select' = st.name_select
    /\ div' = st.div
    /\ last_event' = [kind |-> kind, arg |-> arg,
                      before |-> source.selected.indices, calls |-> st.calls]
    /\ UNCHANGED <<geomVars, portraitVars, taylorVars, callVars>>

\* The tap tool selects point k
Tap(k) == Becomes(SetIndices(Widget, <<k>>), "tap", k)

\* A tap beside every point clears the selection
TapNothing == Becomes(SetIndices(Widget, <<>>), "tap nothing", 0)

\* The user picks another entry of the dropdown
Choose(v) ==
    /\ v # name_select.value
    /\ Becomes(SetValue(Widget, v), "choose", v)

PressPrevious == Becomes(previous_callback(Widget), "previous", 0)

PressNext == Becomes(next_callback(Widget), "next", 0)

\* ------------------------------------------------------------------------
\* scatter_plot (core_scatter_plot.py), up to the data source and the kind
\* of object returned; its widget callbacks are those of the navigation
\* widget above.
\* ------------------------------------------------------------------------
MsgScatterNames == "Length of x, y, and names should be the same."
MsgScatterImages == "Length of x, y, and images should be the same."

\* The sanity check without its test of names
scatter_sanity_check_no_names(a) ==
    IF Len(a.x) # Len(a.y)
    THEN MsgScatterNames
    ELSE IF a.images # NoneList /\ Len(a.x) # Len(a.images[1])
    THEN MsgScatterImages
    ELSE ""

\* The sanity check of the input data (lines 47-53): the message of the
\* ValueError it raises, "" when it raises none
scatter_sanity_check(a) ==
    IF Len(a.x) # Len(a.y) \/ Len(a.x) # Len(a.names)
    THEN MsgScatterNames
    ELSE IF a.images # NoneList /\ Len(a.x) # Len(a.images[1])
    THEN MsgScatterImages
    ELSE ""

NoScatterData == [x |-> <<>>, y |-> <<>>, names |-> <<>>, images |-> NoneList]

\* scatter_plot(x, y, names, images): what is raised, or the columns of the
\* data source and the object returned (the figure, or the layout of the
\* figure and the controls when there are images)
scatter_plot(a) ==
    IF scatter_sanity_check(a) # ""
    THEN [status |-> "ValueError", message |-> scatter_sanity_check(a),
          data |-> NoScatterData, returns |-> "nothing"]
    ELSE [status |-> "returned", message |-> "",
          data |-> [x |-> a.x, y |-> a.y, names |-> a.names,
                    images |-> IF Truthy(a.images) THEN a.images ELSE NoneList],
          returns |-> IF Truthy(a.images) THEN "layout" ELSE "figure"]

ScatterPlot ==
    /\ \E nx \in 0..MaxPoints, ny \in 0..MaxPoints, nn \in 0..MaxPoints,
          images \in {NoneList} \cup {Given(ImageList(k)) : k \in 0..MaxPoints} :
          LET a == [x |-> [k \in 1..nx |-> k], y |-> [k \in 1..ny |-> 10 + k],
                    names |-> ModelNames(nn), images |-> images]
          IN  /\ call' = [fn |-> "scatter_plot", args |-> a]
              /\ ret' = scatter_plot(a)
    /\ UNCHANGED <<geomVars, portraitVars, taylorVars, navVars>>

\* ------------------------------------------------------------------------
\* Colour sampling (support_functions.py)
\* ------------------------------------------------------------------------
\* Names plt.get_cmap knows, and one it does not
KnownCmaps == {"viridis", "Spectral"}
CmapNames == KnownCmaps \cup {"no such colormap"}

\* mcolors.to_hex(cmap(v)): the hex string of colormap cmap_name at v
to_hex(cmap_name, v) == [cmap |-> cmap_name, at |-> v]

\* get_bokeh_colors_from_cmap(cmap_name, num_colors): [status, colors]
get_bokeh_colors_from_cmap(cmap_name, num_colors) ==
    IF num_colors < 1
    THEN [status |-> "ValueError", colors |-> <<>>]
    ELSE IF cmap_name \notin KnownCmaps
    THEN [status |-> "ValueError", colors |-> <<>>]
    \* i / (num_colors - 1), first for i = 0
    ELSE IF num_colors - 1 = 0
    THEN [status |-> "ZeroDivisionError", colors |-> <<>>]
    ELSE [status |-> "ok",
          colors |-> [k \in 1..num_colors |->
                        to_hex(cmap_name, RNorm(<<k - 1, num_colors - 1>>))]]

GetBokehColors ==
    /\ \E cmap_name \in CmapNames, num_colors \in (-1)..MaxColors :
          /\ call' = [fn |-> "get_bokeh_colors_from_cmap",
                      args |-> [cmap_name |-> cmap_name, num_colors |-> num_colors]]
          /\ ret' = get_bokeh_colors_from_cmap(cmap_name, num_colors)
    /\ UNCHANGED <<geomVars, portraitVars, taylorVars, navVars>>

\* ------------------------------------------------------------------------
\* Reference arcs of the Taylor diagram (core_taylor_diagram.py).  A
\* coordinate is a number rat + sign * sqrt(sq) with rat and sq rational:
\* the intersections of circles whose centres lie on the x-axis are such
\* numbers.  An angle is kept as the direction it points in: the signs of
\* the cosine and of the sine and the square of the tangent.
\* ------------------------------------------------------------------------
RZero == <<0, 1>>
RAbs(q) == <<Abs(q[1]), q[2]>>

\* r + c * sqrt(q)
Surd(r, c, q) ==
    LET sign == IF c[1] = 0 \/ q[1] = 0 THEN 0 ELSE IF c[1] > 0 THEN 1 ELSE -1
    IN  [rat |-> r, sign |-> sign,
         sq |-> IF sign = 0 THEN RZero ELSE RMul(RMul(c, c), q)]

Minus(v, r) == [v EXCEPT !.rat = RSub(v.rat, r)]

\* v > 0
Positive(v) ==
    CASE v.sign = 0 -> v.rat[1] > 0
      [] v.sign = 1 -> v.rat[1] >= 0 \/ RLess(RMul(v.rat, v.rat), v.sq)
      [] v.sign = -1 -> v.rat[1] > 0 /\ RLess(v.sq, RMul(v.rat, v.rat))

SignOf(v) ==
    IF Positive(v) THEN 1
    ELSE IF Positive([v EXCEPT !.rat = RSub(RZero, v.rat), !.sign = -v.sign]) THEN -1
    ELSE 0

\* v * v, of a rational or of a root
Square(v) ==
    CASE v.sign = 0 -> RMul(v.rat, v.rat)
      [] v.sign # 0 /\ v.rat = RZero -> v.sq

\* The angle of the direction (dx, dy), within [0, 360) degrees
Vertical == <<1, 0>>
Direction(dx, dy) ==
    [sx |-> SignOf(dx), sy |-> SignOf(dy),
     t2 |-> IF SignOf(dx) = 0 THEN Vertical ELSE RDiv(Square(dy), Square(dx))]

ZeroAngle == [sx |-> 1, sy |-> 0, t2 |-> RZero]          \* 0
PiAngle == [sx |-> -1, sy |-> 0, t2 |-> RZero]           \* np.pi
Degrees90 == [sx |-> 0, sy |-> 1, t2 |-> Vertical]       \* 90.0
Degrees270 == [sx |-> 0, sy |-> -1, t2 |-> Vertical]     \* 270.0

\* angle_with_x_axis(x1, y1, x2, y2), (x1, y1) rational: 90 or 270 for a
\* vertical line, else atan2 in degrees with 360 added when negative
angle_with_x_axis(x1, y1, x2, y2) ==
    IF x2 = Surd(x1, RZero, RZero)
    THEN IF Positive(Minus(y2, y1)) THEN Degrees90 ELSE Degrees270
    ELSE Direction(Minus(x2, x1), Minus(y2, y1))

\* find_circle_intersection without the check for identical circles
find_circle_intersection_no_identical(x1, y1, r1, x2, y2, r2) ==
    LET dx == RSub(x2, x1)
        dy == RSub(y2, y1)
        d == RSqrt(RAdd(RMul(dx, dx), RMul(dy, dy)))
    IN  IF RLess(RAdd(r1, r2), d) \/ RLess(d, RAbs(RSub(r1, r2))) THEN <<>>
        ELSE LET a == RDiv(RAdd(RSub(RMul(r1, r1), RMul(r2, r2)), RMul(d, d)),
                           RMul(RInt(2), d))
                 hsq == RAbs(RSub(RMul(r1, r1), RMul(a, a)))
                 x3 == RAdd(x1, RDiv(RMul(a, dx), d))
                 y3 == RAdd(y1, RDiv(RMul(a, dy), d))
             IN  << [x |-> Surd(x3, RDiv(dy, d), hsq),
                     y |-> Surd(y3, RSub(RZero, RDiv(dx, d)), hsq)],
                    [x |-> Surd(x3, RSub(RZero, RDiv(dy, d)), hsq),
                     y |-> Surd(y3, RDiv(dx, d), hsq)] >>

\* find_circle_intersection for circles with rational centres and radii
\* whose centres are a rational distance apart
find_circle_intersection(x1, y1, r1, x2, y2, r2) ==
    LET dx == RSub(x2, x1)
        dy == RSub(y2, y1)
        d == RSqrt(RAdd(RMul(dx, dx), RMul(dy, dy)))
    IN  IF RLess(RAdd(r1, r2), d) \/ RLess(d, RAbs(RSub(r1, r2))) THEN <<>>
        ELSE IF d = RZero /\ r1 = r2 THEN <<>>
        ELSE LET a == RDiv(RAdd(RSub(RMul(r1, r1), RMul(r2, r2)), RMul(d, d)),
                           RMul(RInt(2), d))
                 hsq == RAbs(RSub(RMul(r1, r1), RMul(a, a)))
                 x3 == RAdd(x1, RDiv(RMul(a, dx), d))
                 y3 == RAdd(y1, RDiv(RMul(a, dy), d))
             IN  << [x |-> Surd(x3, RDiv(dy, d), hsq),
                     y |-> Surd(y3, RSub(RZero, RDiv(dx, d)), hsq)],
                    [x |-> Surd(x3, RSub(RZero, RDiv(dy, d)), hsq),
                     y |-> Surd(y3, RDiv(dx, d), hsq)] >>

\* The crossings with the y-axis of the circle r^2 + x1^2 would describe
find_circle_y_axis_intersection_sum(x1, y1, r) ==
    LET disc == RAdd(RMul(r, r), RMul(x1, x1))
    IN  IF RLess(disc, RZero) THEN <<>>
        ELSE << [x |-> Surd(RZero, RZero, RZero), y |-> Surd(y1, RInt(1), disc)],
                [x |-> Surd(RZero, RZero, RZero), y |-> Surd(y1, RInt(-1), disc)] >>

find_circle_y_axis_intersection(x1, y1, r) ==
    LET disc == RSub(RMul(r, r), RMul(x1, x1))
    IN  IF RLess(disc, RZero) THEN <<>>
        ELSE << [x |-> Surd(RZero, RZero, RZero), y |-> Surd(y1, RInt(1), disc)],
                [x |-> Surd(RZero, RZero, RZero), y |-> Surd(y1, RInt(-1), disc)] >>

\* The RMSE arcs that add_reference_arcs draws, in the order of loop_range
add_reference_arcs(max_stddev, step, refstd) ==
    LET loop_range == arange(step, RAdd(max_stddev, RMul(RInt(2), step)), step)
        outermost_radius == loop_range[Len(loop_range)]
        rmse_arc(i) ==
            LET intersections_start ==
                    find_circle_intersection(refstd, RZero, i,
                                             RZero, RZero, outermost_radius)
                starts == {j \in 1..Len(intersections_start) :
                             /\ Positive(intersections_start[j].x)
                             /\ Positive(intersections_start[j].y)}
                intersections_end == find_circle_y_axis_intersection(refstd, RZero, i)
                ends == {j \in 1..Len(intersections_end) :
                            Positive(intersections_end[j].y)}
                last(js) == CHOOSE j \in js : \A other \in js : other <= j
            IN  [x |-> refstd, y |-> RZero, radius |-> i,
                 start_angle |->
                    IF starts = {} THEN ZeroAngle
                    ELSE angle_with_x_axis(refstd, RZero,
                                           intersections_start[last(starts)].x,
                                           intersections_start[last(starts)].y),
                 end_angle |->
                    IF ends = {} THEN PiAngle
                    ELSE angle_with_x_axis(refstd, RZero,
                                           intersections_end[last(ends)].x,
                                           intersections_end[last(ends)].y)]
    IN  [n \in 1..Len(loop_range) |-> rmse_arc(loop_range[n])]

\* Calls of find_circle_intersection with whole-numbered centres a whole
\* distance apart and whole radii
Centres == {<<0, 0>>, <<4, 0>>, <<3, 4>>}
IsSquare(k) == \E r \in 0..k : r * r = k
Distance2(c1, c2) ==
    (c2[1] - c1[1]) * (c2[1] - c1[1]) + (c2[2] - c1[2]) * (c2[2] - c1[2])

FindCircleIntersection ==
    /\ \E c1 \in Centres, c2 \in Centres, r1 \in 0..MaxRadius, r2 \in 0..MaxRadius :
          /\ IsSquare(Distance2(c1, c2))
          /\ call' = [fn |-> "find_circle_intersection",
                      args |-> [x1 |-> RInt(c1[1]), y1 |-> RInt(c1[2]), r1 |-> RInt(r1),
                                x2 |-> RInt(c2[1]), y2 |-> RInt(c2[2]), r2 |-> RInt(r2)]]
          /\ ret' = [status |-> "ok",
                     points |-> find_circle_intersection(
                                   RInt(c1[1]), RInt(c1[2]), RInt(r1),
                                   RInt(c2[1]), RInt(c2[2]), RInt(r2))]
    /\ UNCHANGED <<geomVars, portraitVars, taylorVars, navVars>>

\* k / 2 for the numbers k of a set
Halves(ks) == {RNorm(<<k, 2>>) : k \in ks}
Steps == {<<1, 2>>, <<1, 1>>}

AddReferenceArcs ==
    /\ \E max_stddev \in Halves(1..MaxStd), step \in Steps,
          refstd \in Halves(0..MaxStd) :
          /\ call' = [fn |-> "add_reference_arcs",
                      args |-> [max_stddev |-> max_stddev, step |-> step,
                                refstd |-> refstd]]
          /\ ret' = [status |-> "ok",
                     arcs |-> add_reference_arcs(max_stddev, step, refstd)]
    /\ UNCHANGED <<geomVars, portraitVars, taylorVars, navVars>>

\* ------------------------------------------------------------------------
\* Specifications: one per component, the others idle
\* ------------------------------------------------------------------------
InitGeom ==
    /\ num_sectors = 0 /\ xy = NoCall /\ probe = NoProbe
    /\ call = NotYet /\ ret = NotYet
    /\ pp_args = NoArgs /\ pp_out = NotCalled
    /\ td_heap = NoHeap /\ td_args = NoTaylorArgs /\ td_out = <<>>
    /\ source = NoSource /\ name_select = NoSelect
    /\ div = [text |-> InitialText] /\ last_event = NoEvent

NextGeom ==
    \/ \E n \in 1..MaxSectors : GetXYPoints(n)
    \/ \E i \in 0..ProbeGrid, j \in 0..ProbeGrid : ProbePoint(i, j)

SpecGeom == InitGeom /\ [][NextGeom]_vars

InitPortrait ==
    /\ num_sectors = 0 /\ xy = NoCall /\ probe = NoProbe
    /\ call = NotYet /\ ret = NotYet
    /\ td_heap = NoHeap /\ td_args = NoTaylorArgs /\ td_out = <<>>
    /\ source = NoSource /\ name_select = NoSelect
    /\ div = [text |-> InitialText] /\ last_event = NoEvent
    /\ PortraitInit

NextPortrait == PortraitPlot

SpecPortrait == InitPortrait /\ [][NextPortrait]_vars

InitPortraitStyle ==
    /\ num_sectors = 0 /\ xy = NoCall /\ probe = NoProbe
    /\ call = NotYet /\ ret = NotYet
    /\ td_heap = NoHeap /\ td_args = NoTaylorArgs /\ td_out = <<>>
    /\ source = NoSource /\ name_select = NoSelect
    /\ div = [text |-> InitialText] /\ last_event = NoEvent
    /\ PortraitStyleInit

SpecPortraitStyle == InitPortraitStyle /\ [][NextPortrait]_vars

InitTaylor ==
    /\ num_sectors = 0 /\ xy = NoCall /\ probe = NoProbe
    /\ call = NotYet /\ ret = NotYet
    /\ pp_args = NoArgs /\ pp_out = NotCalled
    /\ source = NoSource /\ name_select = NoSelect
    /\ div = [text |-> InitialText] /\ last_event = NoEvent
    /\ TaylorInit

NextTaylor == TaylorCall

SpecTaylor == InitTaylor /\ [][NextTaylor]_vars

InitNav ==
    /\ num_sectors = 0 /\ xy = NoCall /\ probe = NoProbe
    /\ call = NotYet /\ ret = NotYet
    /\ pp_args = NoArgs /\ pp_out = NotCalled
    /\ td_heap = NoHeap /\ td_args = NoTaylorArgs /\ td_out = <<>>
    /\ NavInit

NextNav ==
    \/ \E k \in 1..Len(source.data.names) : Tap(k)
    \/ TapNothing
    \/ \E v \in Range(name_select.options) : Choose(v)
    \/ PressPrevious
    \/ PressNext

SpecNav == InitNav /\ [][NextNav]_vars

InitCalls ==
    /\ num_sectors = 0 /\ xy = NoCall /\ probe = NoProbe
    /\ call = NotYet /\ ret = NotYet
    /\ pp_args = NoArgs /\ pp_out = NotCalled
    /\ td_heap = NoHeap /\ td_args = NoTaylorArgs /\ td_out = <<>>
    /\ source = NoSource /\ name_select = NoSelect
    /\ div = [text |-> InitialText] /\ last_event = NoEvent

NextCalls ==
    \/ ScatterPlot
    \/ GetBokehColors
    \/ AddReferenceArcs
    \/ FindCircleIntersection

SpecCalls == InitCalls /\ [][NextCalls]_vars

\* ------------------------------------------------------------------------
\* Properties of the sector partitioner (SpecGeom)
\* ------------------------------------------------------------------------
\* The k-th polygon of the last call, as a sequence of <<x, y>> in hundredths
Vertices(k) ==
    [j \in 1..Len(xy.xpts_list[k]) |-> <<xy.xpts_list[k][j], xy.ypts_list[k][j]>>]

\* Twice the signed area of the triangle a, b, p
Cross(a, b, p) == (b[1] - a[1]) * (p[2] - a[2]) - (b[2] - a[2]) * (p[1] - a[1])

\* Which side of the j-th edge of polygon poly the point p lies on
Side(poly, j, p) == Cross(poly[j], poly[(j % Len(poly)) + 1], p)

\* p lies in the closed polygon (a convex one)
Inside(poly, p) ==
    \/ \A j \in 1..Len(poly) : Side(poly, j, p) >= 0
    \/ \A j \in 1..Len(poly) : Side(poly, j, p) <= 0

\* p lies in the open interior of the polygon; an edge of length zero has
\* no side
StrictlyInside(poly, p) ==
    LET real == {j \in 1..Len(poly) : poly[j] # poly[(j % Len(poly)) + 1]}
    IN  /\ real # {}
        /\ \/ \A j \in real : Side(poly, j, p) > 0
           \/ \A j \in real : Side(poly, j, p) < 0

Convex(poly) == \A j \in 1..Len(poly) : Inside(poly, poly[j])

\* Twice the area of the polygon (shoelace formula)
Area2(poly) ==
    Abs(SumSeq([j \in 1..Len(poly) |->
                  poly[j][1] * poly[(j % Len(poly)) + 1][2]
                  - poly[(j % Len(poly)) + 1][1] * poly[j][2]]))

Scaled(poly, f) == [j \in 1..Len(poly) |-> <<f * poly[j][1], f * poly[j][2]>>]

\* The polygons holding the probed lattice point, and those holding it in
\* their interior (both sides scaled to whole numbers)
Holding ==
    {k \in 1..Len(xy.xpts_list) :
        Inside(Scaled(Vertices(k), ProbeGrid), <<100 * probe[1], 100 * probe[2]>>)}
HoldingInside ==
    {k \in 1..Len(xy.xpts_list) :
        StrictlyInside(Scaled(Vertices(k), ProbeGrid),
                       <<100 * probe[1], 100 * probe[2]>>)}

\* C1: get_x_y_points(N) returns exactly N polygons, every vertex in
\* [0,1]x[0,1]; the polygons are convex sectors whose areas add up to the
\* area of the unit square, every point of the square looked up lies in at
\* least one of them (no gap) and in the interior of at most one (no
\* overlap).
C1_SectorsTileUnitSquare ==
    num_sectors >= 1 =>
        /\ Len(xy.xpts_list) = num_sectors
        /\ Len(xy.ypts_list) = num_sectors
        /\ \A k \in 1..num_sectors :
              /\ Len(xy.xpts_list[k]) = Len(xy.ypts_list[k])
              /\ \A j \in 1..Len(xy.xpts_list[k]) :
                    /\ xy.xpts_list[k][j] \in 0..100
                    /\ xy.ypts_list[k][j] \in 0..100
              /\ Convex(Vertices(k))
        /\ SumSeq([k \in 1..num_sectors |-> Area2(Vertices(k))]) = 2 * 100 * 100
        /\ probe # NoProbe =>
              /\ Holding # {}
              /\ Cardinality(HoldingInside) <= 1

\* Seven sectors were asked for and a point inside one of them was looked up.
C1_Witness ==
    /\ num_sectors = 7
    /\ probe # NoProbe
    /\ Cardinality(HoldingInside) = 1


\* ------------------------------------------------------------------------
\* Properties of the data shaper (SpecPortrait)
\* ------------------------------------------------------------------------
Called == pp_out # NotCalled

\* The grid the caller passed: a 2-D array, a 3-D stacked array, or a list
\* of 2-D arrays
IsGrid(data) ==
    \/ data.kind = "ndarray" /\ Len(data.shape) \in {2, 3}
    \/ data.kind = "list" /\ data.elem_ok

\* Its divisions D, rows R and columns C
Divisions(data) == IF Len(data.shape) = 3 THEN data.shape[1] ELSE 1
Rows(data) == data.shape[Len(data.shape) - 1]
Columns(data) == data.shape[Len(data.shape)]

LabelsMatch(a) ==
    /\ Len(a.xaxis_labels) = Columns(a.data)
    /\ Len(a.yaxis_labels) = Rows(a.data)

\* C2: for a grid of D divisions, R rows and C columns with matching
\* labels, the call emits D*R*C records; the k-th record is the one of
\* division (k-1) div (R*C), row ((k-1) div C) mod R and column (k-1) mod C:
\* it carries that row's and that column's label and that division's polygon
\* at that grid position; xs, ys, field, xname and yname have that length.
C2_OneRecordPerCell ==
    (Called /\ IsGrid(pp_args.data) /\ LabelsMatch(pp_args) /\ ~pp_args.annotate) =>
        LET D == Divisions(pp_args.data)
            R == Rows(pp_args.data)
            C == Columns(pp_args.data)
        IN  /\ pp_out.status = "figure"
            /\ Len(pp_out.xs) = D * R * C
            /\ Len(pp_out.ys) = D * R * C
            /\ Len(pp_out.field) = D * R * C
            /\ Len(pp_out.xname) = D * R * C
            /\ Len(pp_out.yname) = D * R * C
            /\ \A d \in 0..(D - 1), r \in 0..(R - 1), c \in 0..(C - 1) :
                  LET k == d * R * C + r * C + c + 1
                  IN  /\ pp_out.xname[k] = pp_args.xaxis_labels[c + 1]
                      /\ pp_out.yname[k] = pp_args.yaxis_labels[r + 1]
                      /\ pp_out.xs[k] = ShiftBy(get_x_y_points(D).xpts_list[d + 1], c)
                      /\ pp_out.ys[k] = ShiftBy(get_x_y_points(D).ypts_list[d + 1], r)

\* The label check of prepare_data applies to pp_args and a label list of it
\* has the wrong length
LabelMismatch(a) ==
    /\ Len(a.data.shape) >= 2
    /\ \/ Len(a.xaxis_labels) > 0 /\ Len(a.xaxis_labels) # Columns(a.data)
       \/ Len(a.yaxis_labels) > 0 /\ Len(a.yaxis_labels) # Rows(a.data)

\* C8: when xaxis_labels is non-empty and differs in length from the last
\* dimension of the data, or yaxis_labels is non-empty and differs from the
\* second-to-last, prepare_data ends in sys.exit and the call of
\* portrait_plot ends there too, with no figure.
C8_LabelMismatchExits ==
    (Called /\ LabelMismatch(pp_args)) =>
        /\ prepare_data(pp_args.data, pp_args.xaxis_labels,
                        pp_args.yaxis_labels).status = "exit"
        /\ pp_out.status = "exit"

\* A 2-D array with the right column labels and one row label too many was
\* passed, and the call exited.
C8_Witness ==
    /\ Called
    /\ pp_args.data.kind = "ndarray" /\ Len(pp_args.data.shape) = 2
    /\ Len(pp_args.xaxis_labels) = Columns(pp_args.data)
    /\ Len(pp_args.yaxis_labels) = Rows(pp_args.data) + 1
    /\ pp_out.status = "exit"

\* C9: with an empty xaxis_labels and/or yaxis_labels (the other list, when
\* not empty, matching the grid), portrait_plot completes and returns a
\* figure.
C9_EmptyLabelsStillPlot ==
    (/\ Called /\ IsGrid(pp_args.data) /\ ~pp_args.annotate
     /\ pp_args.data.kind = "ndarray" /\ Len(pp_args.data.shape) = 2
     /\ Len(pp_args.xaxis_labels) \in {0, Columns(pp_args.data)}
     /\ Len(pp_args.yaxis_labels) \in {0, Rows(pp_args.data)}
     /\ Len(pp_args.xaxis_labels) = 0 \/ Len(pp_args.yaxis_labels) = 0)
        => pp_out.status = "figure"


\* ------------------------------------------------------------------------
\* Properties of the Taylor-diagram builder (SpecTaylor)
\* ------------------------------------------------------------------------
\* The number of models passed, and the calls that returned a figure
NModels == Len(td_args.std_devs)
Figures == {c \in 1..Len(td_out) : td_out[c].status = "figure"}

\* The reference standard deviation the records are computed against
RefStd == IF td_args.normalize THEN RInt(1) ELSE td_args.refstd

RSquare(q) == RMul(q, q)

\* C5: for every record of a returned figure, rmse^2 equals
\* ref^2 + std^2 - 2*ref*std*corr, and that equals the squared distance
\* from the plotted point (x, y) = (std*corr, std*sqrt(1 - corr^2)) to the
\* reference location (ref, 0); std = corr = ref = 1 gives rmse 0.
C5_RmseIsDistanceToReference ==
    \A c \in Figures :
        LET d == td_out[c].data
        IN  \A k \in 1..Len(d.rmse) :
               /\ d.x[k] = RMul(d.std_devs[k], d.correlations[k])
               /\ RSquare(d.y[k]) = RMul(RSquare(d.std_devs[k]),
                                         RSub(RInt(1), RSquare(d.correlations[k])))
               /\ d.rmse[k].sqrt_of =
                     RSub(RAdd(RSquare(RefStd), RSquare(d.std_devs[k])),
                          RMul(RMul(RMul(RInt(2), RefStd), d.std_devs[k]),
                               d.correlations[k]))
               /\ d.rmse[k].sqrt_of =
                     RAdd(RSquare(RSub(d.x[k], RefStd)), RSquare(d.y[k]))
               /\ (d.std_devs[k] = RInt(1) /\ d.correlations[k] = RInt(1)
                   /\ RefStd = RInt(1)) => d.rmse[k] = Sqrt(RInt(0))

\* A figure was returned with a model of std = corr = 1 against ref = 1
\* (rmse 0) next to a model away from the reference (rmse above 0).
C5_Witness ==
    \E c \in Figures :
        LET d == td_out[c].data
        IN  /\ RefStd = RInt(1)
            /\ \E k \in 1..NModels :
                  /\ d.std_devs[k] = RInt(1) /\ d.correlations[k] = RInt(1)
                  /\ d.rmse[k] = Sqrt(RInt(0))
            /\ \E k \in 1..NModels :
                  /\ d.correlations[k] # RInt(1)
                  /\ RLess(RInt(0), d.rmse[k].sqrt_of)

\* The data columns of a figure
ColumnLengths(d) ==
    {Len(d.x), Len(d.y), Len(d.names), Len(d.std_devs), Len(d.correlations),
     Len(d.rmse)}
    \cup (IF d.images # NoneList THEN {Len(d.images[1])} ELSE {})

\* C6: a figure built with show_reference holds the n model records (their
\* standard deviations divided by refstd when normalize is set) followed by
\* exactly one record named reference_name with the reference standard
\* deviation (1 when normalize is set), correlation 1 and rmse 0, so every
\* column, images included when given, has length n+1; without
\* show_reference every column has length n.
C6_ReferenceRecordAppended ==
    \A c \in Figures :
        LET d == td_out[c].data
            n == NModels
        IN  /\ \A k \in 1..n :
                  /\ d.names[k] = td_args.names[k]
                  /\ d.correlations[k] = td_args.correlations[k]
                  /\ d.std_devs[k] = IF td_args.normalize
                                     THEN RDiv(td_args.std_devs[k], td_args.refstd)
                                     ELSE td_args.std_devs[k]
            /\ (td_args.images # NoneList /\ td_args.images[1] # <<>>)
                  => d.images # NoneList
            /\ IF td_args.show_reference
               THEN /\ ColumnLengths(d) = {n + 1}
                    /\ d.names[n + 1] = td_args.reference_name
                    /\ d.std_devs[n + 1] = RefStd
                    /\ d.correlations[n + 1] = RInt(1)
                    /\ d.rmse[n + 1] = Sqrt(RInt(0))
               ELSE ColumnLengths(d) = {n}

\* A figure was built with the reference shown, images given, and standard
\* deviations normalized by a refstd other than 1.
C6_Witness ==
    /\ 1 \in Figures
    /\ td_args.show_reference /\ td_args.normalize
    /\ td_args.refstd # RInt(1)
    /\ NModels = 2
    /\ td_args.images # NoneList
    /\ Len(td_out[1].data.images[1]) = 3

\* The lists the caller passed as names, images and colormap, as they were
\* before the first call
CallerLists ==
    [names |-> td_args.names, images |-> td_args.images,
     colormap |-> td_args.colormap]

\* C7: the caller's names, images and colormap lists are as they were after
\* every call, and a second call with the same objects ends as the first.
C7_CallerListsUntouched ==
    /\ td_out # <<>> => td_heap = CallerLists
    /\ Len(td_out) >= 2 => td_out[2] = td_out[1]

\* The three lengths differ; images was given with another length than
\* std_devs
LengthsDiffer ==
    \/ Len(td_args.std_devs) # Len(td_args.correlations)
    \/ Len(td_args.std_devs) # Len(td_args.names)
    \/ Len(td_args.correlations) # Len(td_args.names)
ImagesDiffer ==
    /\ td_args.images # NoneList
    /\ Len(td_args.images[1]) # Len(td_args.std_devs)

\* C10 as stated: the first call raises ValueError with the message about
\* the three lengths whenever they differ, and ValueError with the message
\* naming 'images' whenever images has another length than std_devs; a
\* figure is returned only when all lengths agree.
C10_AsStated ==
    td_out # <<>> =>
        /\ LengthsDiffer =>
              td_out[1].status = "ValueError" /\ td_out[1].message = MsgLengths
        /\ ImagesDiffer =>
              td_out[1].status = "ValueError" /\ td_out[1].message = MsgImages
        /\ td_out[1].status = "figure" => ~LengthsDiffer /\ ~ImagesDiffer

\* C10, amended: the message about the three lengths is raised whenever
\* they differ, whatever the length of images; the message naming 'images'
\* is raised when the three lengths agree and images has another length; a
\* figure is returned only when all lengths agree.
C10_LengthChecksInOrder ==
    td_out # <<>> =>
        /\ LengthsDiffer =>
              td_out[1].status = "ValueError" /\ td_out[1].message = MsgLengths
        /\ (~LengthsDiffer /\ ImagesDiffer) =>
              td_out[1].status = "ValueError" /\ td_out[1].message = MsgImages
        /\ td_out[1].status = "figure" => ~LengthsDiffer /\ ~ImagesDiffer

\* The three lengths agreed, images had another length, and the call raised
\* the ValueError naming 'images'.
C10_Witness ==
    /\ td_out # <<>>
    /\ ~LengthsDiffer /\ ImagesDiffer
    /\ NModels = 2
    /\ td_out[1].status = "ValueError" /\ td_out[1].message = MsgImages


\* ------------------------------------------------------------------------
\* Properties of the navigation widget (SpecNav)
\* ------------------------------------------------------------------------
NPoints == Len(source.data.names)

\* C3: with point k selected (k from 0 in the claim, from 1 here), a press
\* of Next leaves (k+1) mod n selected and a press of Previous leaves
\* (k-1+n) mod n selected, for every list of n points.
C3_NextPreviousCycle ==
    /\ (last_event.kind = "next" /\ last_event.before # <<>>) =>
          source.selected.indices = <<(last_event.before[1] % NPoints) + 1>>
    /\ (last_event.kind = "previous" /\ last_event.before # <<>>) =>
          source.selected.indices =
              <<((last_event.before[1] - 2 + NPoints) % NPoints) + 1>>

\* C4: after any sequence of taps, dropdown choices and Previous/Next
\* presses, whenever a point is selected the dropdown shows its name and
\* the panel shows its image (or "No image available") and its values.
C4_WidgetsSynchronized ==
    source.selected.indices # <<>> =>
        LET k == source.selected.indices[1]
        IN  /\ name_select.value = source.data.names[k]
            /\ div.text = PointText(source.data, k)


\* ------------------------------------------------------------------------
\* Properties of scatter_plot and of the helper functions (SpecCalls)
\* ------------------------------------------------------------------------
ScatterCalled == call.fn = "scatter_plot"

\* C11: scatter_plot raises ValueError whenever len(x), len(y) and
\* len(names) are not all equal, and whenever images is given with another
\* length than x; otherwise it returns a plot whose data source holds x, y
\* and names columns of the common length (the values passed).
C11_ScatterLengthsChecked ==
    ScatterCalled =>
        LET a == call.args
            differ == \/ Len(a.x) # Len(a.y)
                      \/ Len(a.x) # Len(a.names)
                      \/ Len(a.y) # Len(a.names)
            images_differ == a.images # NoneList /\ Len(a.images[1]) # Len(a.x)
        IN  IF differ \/ images_differ
            THEN ret.status = "ValueError"
            ELSE /\ ret.status = "returned"
                 /\ ret.returns \in {"figure", "layout"}
                 /\ ret.data.x = a.x /\ ret.data.y = a.y /\ ret.data.names = a.names
                 /\ Len(ret.data.x) = Len(a.x)
                 /\ Len(ret.data.y) = Len(a.x)
                 /\ Len(ret.data.names) = Len(a.x)

\* x and y had the same length, names another, and ValueError was raised.
C11_Witness ==
    /\ ScatterCalled
    /\ Len(call.args.x) = 2 /\ Len(call.args.y) = 2 /\ Len(call.args.names) = 3
    /\ ret.status = "ValueError"

\* C12: for a colormap Matplotlib knows, get_bokeh_colors_from_cmap(name, N)
\* returns exactly N hex colours for every N >= 1 and raises ValueError for
\* every N < 1.
C12_NColoursForEveryN ==
    (/\ call.fn = "get_bokeh_colors_from_cmap"
     /\ call.args.cmap_name \in KnownCmaps) =>
        IF call.args.num_colors >= 1
        THEN ret.status = "ok" /\ Len(ret.colors) = call.args.num_colors
        ELSE ret.status = "ValueError"

\* ------------------------------------------------------------------------
\* Further properties of portrait_plot (SpecPortrait, SpecPortraitStyle)
\* ------------------------------------------------------------------------
\* C13: in a figure of R rows, the values of input row r are placed at
\* vertical offset R-1-r when invert_yaxis and at offset r otherwise, and
\* the row-axis label shown at that offset is yaxis_labels[r].
C13_RowZeroOnTop ==
    (Called /\ pp_out.status = "figure") =>
        LET D == Divisions(pp_args.data)
            R == Rows(pp_args.data)
            C == Columns(pp_args.data)
        IN  \A d \in 0..(D - 1), r \in 0..(R - 1), c \in 0..(C - 1) :
                LET off == IF pp_args.invert_yaxis THEN R - 1 - r ELSE r
                    k == d * R * C + off * C + c + 1
                IN  /\ pp_out.field[k] = CellValue(pp_args.data, d, r, c)
                    /\ pp_out.ys[k] = ShiftBy(xpts_ypts[D].ypts_list[d + 1], off)
                    /\ pp_out.y_range[off + 1] = pp_args.yaxis_labels[r + 1]

\* A figure of two rows with invert_yaxis, whose first record holds the
\* value of input row 1
C13_Witness ==
    /\ Called /\ pp_out.status = "figure"
    /\ pp_args.invert_yaxis
    /\ Rows(pp_args.data) = 2
    /\ pp_out.field[1] = CellValue(pp_args.data, 0, 1, 0)
    /\ pp_out.y_range[1] = pp_args.yaxis_labels[2]

\* A 3-D stacked array
Stacked(data) == data.kind = "ndarray" /\ Len(data.shape) = 3

\* C14: a 3-D stacked array whose leading axis has length D in 1..4, with
\* matching labels, gives a figure of D divisions per cell and never a
\* fatal exit.
C14_StackOfAnyDepth ==
    (/\ Called /\ Stacked(pp_args.data) /\ LabelsMatch(pp_args)
     /\ pp_args.data.shape[1] \in 1..4
     /\ ~pp_args.annotate) =>
        /\ pp_out.status = "figure"
        /\ Len(pp_out.field) =
              pp_args.data.shape[1] * Rows(pp_args.data) * Columns(pp_args.data)

\* annotate_data is a grid whose rows and columns match the labels
AnnotationFits(a) ==
    /\ IsGrid(a.annotate_data)
    /\ Len(a.xaxis_labels) = Columns(a.annotate_data)
    /\ Len(a.yaxis_labels) = Rows(a.annotate_data)

\* C15: with annotate, the call exits when annotate_data has another number
\* of divisions than data and builds the figure when the two numbers agree.
C15_AnnotationDivisions ==
    (/\ Called /\ pp_args.annotate
     /\ IsGrid(pp_args.data) /\ LabelsMatch(pp_args)
     /\ AnnotationFits(pp_args)) =>
        IF Divisions(pp_args.annotate_data) # Divisions(pp_args.data)
        THEN pp_out.status = "exit"
        ELSE pp_out.status = "figure"

\* C16: with annotate and annotate_data None the call completes and every
\* record's annotation value equals its value.
C16_AnnotateWithData ==
    (/\ Called /\ pp_args.annotate /\ pp_args.annotate_data = None
     /\ IsGrid(pp_args.data) /\ LabelsMatch(pp_args)) =>
        /\ pp_out.status = "figure"
        /\ pp_out.field2 = pp_out.field

\* The values the colour domain is to span: the cells that are not NaN, or
\* the ends of vrange when it is given, and the edges of cmap_bounds
DomainValues(a) ==
    LET D == Divisions(a.data)
        R == Rows(a.data)
        C == Columns(a.data)
        cells == {CellValue(a.data, d, r, c) :
                    d \in 0..(D - 1), r \in 0..(R - 1), c \in 0..(C - 1)} \ {NaN}
    IN  (IF a.vrange = <<>> THEN cells ELSE Range(a.vrange[1]))
        \cup (IF a.cmap_bounds = <<>> THEN {} ELSE Range(a.cmap_bounds[1]))

\* C18: in a figure, low and high of the colour mapper are the least and
\* the greatest of the cell values that are not NaN (of vrange when given)
\* and of the cmap_bounds edges, so every edge lies within [low, high], and
\* low <= high.
C18_ColourDomain ==
    (Called /\ pp_out.status = "figure") =>
        /\ ~IsNaN(pp_out.low) /\ ~IsNaN(pp_out.high)
        /\ pp_out.low \in DomainValues(pp_args)
        /\ pp_out.high \in DomainValues(pp_args)
        /\ \A v \in DomainValues(pp_args) : pp_out.low <= v /\ v <= pp_out.high
        /\ pp_out.low <= pp_out.high

\* Data and labels that the shaping loop turns into records
Renderable(a) ==
    /\ IsGrid(a.data) /\ LabelsMatch(a)
    /\ ~(Stacked(a.data) /\ a.data.shape[1] = 1)
    /\ ~a.annotate

\* C20: for such data, xaxis_location "above" and "below" give a figure
\* with the x-axis there, "both" gives a figure with the x-axis above and a
\* second axis below with the label of column x at x + 0.5, and every other
\* value makes the call exit.
C20_AxisLocations ==
    (Called /\ Renderable(pp_args)) =>
        CASE pp_args.xaxis_location \in {"above", "below"} ->
                /\ pp_out.status = "figure"
                /\ pp_out.x_axis_location = pp_args.xaxis_location
                /\ pp_out.below_axis = <<>>
          [] pp_args.xaxis_location = "both" ->
                /\ pp_out.status = "figure"
                /\ pp_out.x_axis_location = "above"
                /\ Len(pp_out.below_axis) = Columns(pp_args.data)
                /\ \A x \in 0..(Columns(pp_args.data) - 1) :
                      pp_out.below_axis[x + 1] =
                          [at |-> 2 * x + 1, label |-> pp_args.xaxis_labels[x + 1]]
          [] OTHER -> pp_out.status = "exit"

\* A figure of two columns with xaxis_location "both"
C20_Witness ==
    /\ Called /\ pp_args.xaxis_location = "both"
    /\ pp_out.status = "figure"
    /\ pp_out.x_axis_location = "above"
    /\ Len(pp_out.below_axis) = 2

\* ------------------------------------------------------------------------
\* Position tags of the polygons (SpecGeom)
\* ------------------------------------------------------------------------
\* Where the vertices of a polygon lie on average, seen from the centre
\* (50, 50) of the square: the sums of their offsets from it
OffX(poly) == SumSeq([j \in 1..Len(poly) |-> poly[j][1] - 50])
OffY(poly) == SumSeq([j \in 1..Len(poly) |-> poly[j][2] - 50])

\* The tag names the part of the square the polygon lies in
Names(tag, poly) ==
    CASE tag = "top" -> OffY(poly) > 0 /\ Abs(OffX(poly)) < OffY(poly)
      [] tag = "bottom" -> OffY(poly) < 0 /\ Abs(OffX(poly)) < -OffY(poly)
      [] tag = "right" -> OffX(poly) > 0 /\ Abs(OffY(poly)) < OffX(poly)
      [] tag = "left" -> OffX(poly) < 0 /\ Abs(OffY(poly)) < -OffX(poly)
      [] tag = "lower-left" -> OffX(poly) < 0 /\ OffY(poly) < 0
      [] tag = "lower-right" -> OffX(poly) > 0 /\ OffY(poly) < 0
      [] tag = "upper" -> OffY(poly) > 0
      [] tag = "lower" -> OffY(poly) < 0
      [] OTHER -> FALSE

\* C17: for N in {2, 3, 4} the i-th tag of get_positions(N) names the part
\* of the unit square that the i-th polygon of get_x_y_points(N) covers.
C17_TagsNameTheirPolygons ==
    num_sectors \in {2, 3, 4} =>
        /\ Len(get_positions(num_sectors)) = Len(xy.xpts_list)
        /\ \A i \in 1..num_sectors :
              Names(get_positions(num_sectors)[i], Vertices(i))

\* ------------------------------------------------------------------------
\* RMSE arcs (SpecCalls)
\* ------------------------------------------------------------------------
ArcsCalled == call.fn = "add_reference_arcs"

\* The direction from (refstd, 0) to (0, sqrt(i^2 - refstd^2)), the point
\* where the circle of radius i > refstd around (refstd, 0) crosses the
\* positive vertical axis
TowardsCrossing(refstd, i) ==
    IF refstd = RZero THEN [sx |-> 0, sy |-> 1, t2 |-> Vertical]
    ELSE [sx |-> -1, sy |-> 1,
          t2 |-> RDiv(RSub(RMul(i, i), RMul(refstd, refstd)), RMul(refstd, refstd))]

\* C19: the k-th RMSE arc has radius i = k * step and centre (refstd, 0);
\* its end angle is the direction from the centre to the crossing of the
\* circle with the positive vertical axis when i > refstd, and pi when
\* i <= refstd.
C19_ArcEndsOnVerticalAxis ==
    ArcsCalled =>
        \A k \in 1..Len(ret.arcs) :
            LET i == RMul(RInt(k), call.args.step)
                refstd == call.args.refstd
            IN  /\ ret.arcs[k].radius = i
                /\ ret.arcs[k].x = refstd /\ ret.arcs[k].y = RZero
                /\ ret.arcs[k].end_angle =
                      IF RLess(refstd, i) THEN TowardsCrossing(refstd, i)
                      ELSE PiAngle

\* Arcs were drawn of which one stays short of the vertical axis, one
\* touches it at the origin and one crosses it above the origin.
C19_Witness ==
    /\ ArcsCalled
    /\ \E k \in 1..Len(ret.arcs) :
          /\ RLess(ret.arcs[k].radius, call.args.refstd)
          /\ ret.arcs[k].end_angle = PiAngle
    /\ \E k \in 1..Len(ret.arcs) :
          /\ ret.arcs[k].radius = call.args.refstd
          /\ ret.arcs[k].end_angle = PiAngle
    /\ \E k \in 1..Len(ret.arcs) :
          /\ RLess(call.args.refstd, ret.arcs[k].radius)
          /\ ret.arcs[k].end_angle # PiAngle
          /\ ret.arcs[k].end_angle.sy = 1

\* ------------------------------------------------------------------------
\* Shapes of the sector polygons (SpecGeom)
\* ------------------------------------------------------------------------
\* C21: get_x_y_points(1) returns one polygon whose vertices are the four
\* corners of the unit square; get_x_y_points(2) returns exactly two
\* triangles, (0,0),(0,1),(1,1) and (1,1),(1,0),(0,0), which share the
\* diagonal from (0,0) to (1,1).
C21_FixedShapes ==
    /\ num_sectors = 1 =>
          /\ Len(xy.xpts_list) = 1 /\ Len(xy.ypts_list) = 1
          /\ Len(Vertices(1)) = 4
          /\ Range(Vertices(1)) = {<<0, 0>>, <<0, 100>>, <<100, 100>>, <<100, 0>>}
    /\ num_sectors = 2 =>
          /\ Len(xy.xpts_list) = 2 /\ Len(xy.ypts_list) = 2
          /\ Len(Vertices(1)) = 3 /\ Len(Vertices(2)) = 3
          /\ Range(Vertices(1)) = {<<0, 0>>, <<0, 100>>, <<100, 100>>}
          /\ Range(Vertices(2)) = {<<100, 100>>, <<100, 0>>, <<0, 0>>}
          /\ Range(Vertices(1)) \cap Range(Vertices(2)) = {<<0, 0>>, <<100, 100>>}

\* Two sectors were asked for and two triangles came back
C21_Witness ==
    /\ num_sectors = 2
    /\ Len(xy.xpts_list) = 2
    /\ Len(Vertices(1)) = 3 /\ Len(Vertices(2)) = 3

\* ------------------------------------------------------------------------
\* Labels of the cell records (SpecPortrait)
\* ------------------------------------------------------------------------
\* C22: in a figure the record whose value is that of input cell (d, r, c)
\* carries the row label yaxis_labels[r] and the column label
\* xaxis_labels[c], with and without invert_yaxis.
C22_RecordCarriesItsLabels ==
    (Called /\ pp_out.status = "figure") =>
        LET D == Divisions(pp_args.data)
            R == Rows(pp_args.data)
            C == Columns(pp_args.data)
        IN  \A d \in 0..(D - 1), r \in 0..(R - 1), c \in 0..(C - 1) :
                LET off == IF pp_args.invert_yaxis THEN R - 1 - r ELSE r
                    k == d * R * C + off * C + c + 1
                IN  /\ pp_out.field[k] = CellValue(pp_args.data, d, r, c)
                    /\ pp_out.xname[k] = pp_args.xaxis_labels[c + 1]
                    /\ pp_out.yname[k] = pp_args.yaxis_labels[r + 1]

\* ------------------------------------------------------------------------
\* Further properties of the navigation widget (SpecNav)
\* ------------------------------------------------------------------------
\* The names of the points differ from one another
UniqueNames ==
    \A i, j \in 1..NPoints : source.data.names[i] = source.data.names[j] => i = j

\* C23: after a tap on point k and the callbacks it sets off, k is the
\* selected index, the dropdown shows names[k] and the panel shows the
\* image and the values of k, for every list of points.
C23_TapSelectsThePoint ==
    last_event.kind = "tap" =>
        LET k == last_event.arg
        IN  /\ source.selected.indices = <<k>>
            /\ name_select.value = source.data.names[k]
            /\ div.text = PointText(source.data, k)

\* The widget after m presses of Next, and after m presses of Previous
RECURSIVE NextTimes(_, _)
NextTimes(st, m) == IF m = 0 THEN st ELSE NextTimes(next_callback(st), m - 1)

RECURSIVE PreviousTimes(_, _)
PreviousTimes(st, m) ==
    IF m = 0 THEN st ELSE PreviousTimes(previous_callback(st), m - 1)

SelectedIn(st) == st.source.selected.indices

\* C24: from any selected point, n presses of Next visit every point of
\* the list and end on the starting point; n presses of Previous do the
\* same in the reverse order; and Previous pressed right after Next
\* restores the index selected before.
C24_PressesCycleThroughAllPoints ==
    source.selected.indices # <<>> =>
        LET n == NPoints
            start == source.selected.indices
        IN  /\ SelectedIn(NextTimes(Widget, n)) = start
            /\ {SelectedIn(NextTimes(Widget, m)) : m \in 0..(n - 1)}
                  = {<<k>> : k \in 1..n}
            /\ SelectedIn(PreviousTimes(Widget, n)) = start
            /\ \A m \in 0..n :
                  SelectedIn(PreviousTimes(Widget, m)) = SelectedIn(NextTimes(Widget, n - m))
            /\ SelectedIn(previous_callback(next_callback(Widget))) = start

\* The points that carry the name v
Matching(v) == {i \in 1..NPoints : source.data.names[i] = v}

\* C25: after the user has chosen the dropdown value v, the first point in
\* array order named v is selected and the panel shows its image and its
\* values; when no point is named v, as for the "Select Data" entry, the
\* selection is empty and the panel reads "No matching point found.".
C25_ChoiceSelectsFirstMatch ==
    last_event.kind = "choose" =>
        LET v == last_event.arg
        IN  /\ name_select.value = v
            /\ IF Matching(v) # {}
               THEN LET first == CHOOSE i \in Matching(v) : \A j \in Matching(v) : i <= j
                    IN  /\ source.selected.indices = <<first>>
                        /\ div.text.kind = IF source.data.images[first] # 0
                                           THEN "image" ELSE "No image available"
                        /\ div.text.img = source.data.images[first]
                        /\ div.text.values = source.data.values[first]
               ELSE /\ source.selected.indices = <<>>
                    /\ div.text.kind = "No matching point found."

\* Two points carry one name, the second of them was selected, that name
\* was chosen in the dropdown, and the first of them is selected now.
C25_Witness ==
    /\ last_event.kind = "choose"
    /\ last_event.arg # SelectData
    /\ Cardinality(Matching(last_event.arg)) >= 2
    /\ last_event.before # <<>>
    /\ source.selected.indices # last_event.before
    /\ source.selected.indices # <<>>
    /\ div.text = PointText(source.data, source.selected.indices[1])

\* C26: while no point is selected, a press of Previous or of Next changes
\* neither the selection, nor the dropdown value, nor the panel text.
C26_IdleButtonsChangeNothing ==
    [][((PressPrevious \/ PressNext) /\ source.selected.indices = <<>>) =>
          /\ source'.selected = source.selected
          /\ name_select'.value = name_select.value
          /\ div'.text = div.text]_vars

\* Next was pressed after the selection had been cleared by the choice of
\* "Select Data", and nothing is selected.
C26_Witness ==
    /\ last_event.kind = "next"
    /\ last_event.before = <<>>
    /\ source.selected.indices = <<>>
    /\ name_select.value = SelectData
    /\ div.text = NoMatchText

\* C27: every user event sets off a finite chain of callbacks: a tap runs
\* at most 3 of them, a choice in the dropdown at most 2, a press of
\* Previous or of Next at most 4, the button's own callback included; the
\* click callback and the dropdown callback do not set each other off
\* again once the value each of them assigns is the value already there.
C27_CallbackChainsEnd ==
    /\ last_event.kind \in {"tap", "tap nothing"} => last_event.calls <= 3
    /\ last_event.kind = "choose" => last_event.calls <= 2
    /\ last_event.kind \in {"previous", "next"} => last_event.calls <= 4

\* A press of Next set off the dropdown callback and the click callback
\* twice, and the chain ended with the next point selected.
C27_Witness ==
    /\ last_event.kind = "next"
    /\ last_event.calls = 4
    /\ last_event.before # <<>>
    /\ source.selected.indices # <<>>
    /\ source.selected.indices # last_event.before

\* ------------------------------------------------------------------------
\* Circle intersections (SpecCalls)
\* ------------------------------------------------------------------------
IntersectionCalled == call.fn = "find_circle_intersection"

\* The square of the distance between the centres of the call
CentresApart2 ==
    LET a == call.args
    IN  RAdd(RMul(RSub(a.x2, a.x1), RSub(a.x2, a.x1)),
             RMul(RSub(a.y2, a.y1), RSub(a.y2, a.y1)))

\* (p.x - cx)^2 + (p.y - cy)^2 = r^2 for a point whose coordinates are
\* rat + sign * sqrt(sq): the rational parts add up to r^2 and the two
\* root terms cancel
OnCircle(p, cx, cy, r) ==
    LET ax == RSub(p.x.rat, cx)
        ay == RSub(p.y.rat, cy)
        tx == p.x.sign * ax[1]     \* the sign of the root term of x
        ty == p.y.sign * ay[1]
    IN  /\ RAdd(RAdd(RMul(ax, ax), p.x.sq), RAdd(RMul(ay, ay), p.y.sq)) = RMul(r, r)
        /\ RMul(RMul(ax, ax), p.x.sq) = RMul(RMul(ay, ay), p.y.sq)
        /\ \/ tx = 0 /\ ty = 0
           \/ tx > 0 /\ ty < 0
           \/ tx < 0 /\ ty > 0

\* C28: find_circle_intersection returns no point when the circles are too
\* far apart (d > r1 + r2), when one lies strictly inside the other
\* (d < |r1 - r2|) and when they are identical; otherwise it returns
\* exactly two points, each on both circles; and it divides by the distance
\* d of the centres only when d is not 0.
C28_TwoPointsOnBothCircles ==
    IntersectionCalled =>
        LET a == call.args
            d2 == CentresApart2
            sum == RAdd(a.r1, a.r2)
            diff == RSub(a.r1, a.r2)
            apart == RLess(RMul(sum, sum), d2)
            inside == RLess(d2, RMul(diff, diff))
            identical == a.x1 = a.x2 /\ a.y1 = a.y2 /\ a.r1 = a.r2
        IN  IF apart \/ inside \/ identical
            THEN ret.points = <<>>
            ELSE /\ Len(ret.points) = 2
                 /\ d2 # RZero
                 /\ \A j \in 1..2 :
                       /\ OnCircle(ret.points[j], a.x1, a.y1, a.r1)
                       /\ OnCircle(ret.points[j], a.x2, a.y2, a.r2)

\* Two circles whose centres do not lie on one horizontal line crossed in
\* two different points.
C28_Witness ==
    /\ IntersectionCalled
    /\ call.args.y1 # call.args.y2 /\ call.args.x1 # call.args.x2
    /\ Len(ret.points) = 2
    /\ ret.points[1] # ret.points[2]

C30_NoVertexTwice ==
    num_sectors >= 3 =>
        \A k \in 1..Len(xy.xpts_list) :
            /\ Vertices(k)[1] = <<50, 50>>
            /\ Cardinality(Range(Vertices(k))) = Len(Vertices(k))

====
